---------------------------- MODULE Spec2Model ----------------------------
(***************************************************************************)
(* Electoral-roll OCR extraction service (backend/app.py).                 *)
(*                                                                         *)
(* The model follows one request through extract_data: the upload is       *)
(* saved to a temporary file, extract_text_from_pdf rasterizes it, each    *)
(* page is recognized and segmented line by line into records, the page    *)
(* images are released, the response is chosen and the temporary file is   *)
(* deleted with a bounded retry.                                           *)
(*                                                                         *)
(* Text is a sequence of one-character strings.  The external calls        *)
(* (pdf2image, cv2, pytesseract, re.search, os.unlink) are inputs: each    *)
(* step draws the outcome of the call it makes.  The OCR text of a page is *)
(* read by the code in two ways only, the two whole-text searches          *)
(* (section_match, polling_match) and the line loop, so a page is drawn as *)
(* the results of the two searches followed by its lines, one per step.    *)
(* A line is drawn as the result of each single-line re.search on it.      *)
(***************************************************************************)
EXTENDS Integers, Sequences, FiniteSets, TLC

(* ------------------------------ bounds -------------------------------- *)

\* pages a document may have
MaxPages == 3

\* lines a document may have, over all its pages
MaxLines == 7

\* lines of one required label the tally of a page counts
MaxTally == 2

(* --------------------------- text helpers ----------------------------- *)

Space == " "

RECURSIVE LStrip(_)
\* str.lstrip(): drop leading whitespace
LStrip(s) ==
    IF s = <<>> THEN <<>>
    ELSE IF Head(s) = Space THEN LStrip(Tail(s)) ELSE s

RECURSIVE RStrip(_)
\* str.rstrip(): drop trailing whitespace
RStrip(s) ==
    IF s = <<>> THEN <<>>
    ELSE IF s[Len(s)] = Space THEN RStrip(SubSeq(s, 1, Len(s) - 1)) ELSE s

\* str.strip()
Strip(s) == RStrip(LStrip(s))

RECURSIVE SplitSep(_, _, _)
\* str.split(sep): the pieces between occurrences of sep, empty pieces kept;
\* cur is the piece being read
SplitSep(s, sep, cur) ==
    IF s = <<>> THEN <<cur>>
    ELSE IF Head(s) = sep THEN <<cur>> \o SplitSep(Tail(s), sep, <<>>)
    ELSE SplitSep(Tail(s), sep, Append(cur, Head(s)))

RECURSIVE DropEmpty(_)
DropEmpty(parts) ==
    IF parts = <<>> THEN <<>>
    ELSE IF Head(parts) = <<>> THEN DropEmpty(Tail(parts))
    ELSE <<Head(parts)>> \o DropEmpty(Tail(parts))

\* str.split() without a separator: the whitespace-separated tokens
Split(s) == DropEmpty(SplitSep(s, Space, <<>>))

RECURSIVE Join(_, _)
\* sep.join(parts)
Join(parts, sep) ==
    IF parts = <<>> THEN <<>>
    ELSE IF Len(parts) = 1 THEN Head(parts)
    ELSE Head(parts) \o <<sep>> \o Join(Tail(parts), sep)

RECURSIVE Remove(_, _)
\* str.replace(c, '')
Remove(s, c) ==
    IF s = <<>> THEN <<>>
    ELSE IF Head(s) = c THEN Remove(Tail(s), c)
    ELSE <<Head(s)>> \o Remove(Tail(s), c)

DigitValue(c) ==
    CASE c = "0" -> 0 [] c = "1" -> 1 [] c = "2" -> 2 [] c = "3" -> 3
      [] c = "4" -> 4 [] c = "5" -> 5 [] c = "6" -> 6 [] c = "7" -> 7
      [] c = "8" -> 8 [] c = "9" -> 9

RECURSIVE ToInt(_)
\* int(digits)
ToInt(s) ==
    IF s = <<>> THEN 0
    ELSE 10 * ToInt(SubSeq(s, 1, Len(s) - 1)) + DigitValue(s[Len(s)])


(* ------------------------- what re.search finds ----------------------- *)

\* re.search(...) is None
NoMatch == <<>>

\* group(1) of the section search on the whole page text: \d+-\w+[\w\s]+
\* (one hyphen; the [\w\s]+ tail may end in whitespace)
SectionMatches == {NoMatch, <<"7", "-", "W", "a", " ">>}

\* group(1) of the polling-station search on the whole page text:
\* \d+\s*-\s*[\w\s()]+
PollingMatches == {NoMatch, <<"3", " ", "-", " ", "P", "s">>}

\* One line of ocr_text.split('\n') after line.strip(): whether it is empty,
\* and the group each single-line search captures on it (NoMatch for none).
Line(n, a, h, s, g, t) ==
    [blank |-> FALSE, name |-> n, age |-> a, house_number |-> h,
     spouse_or_parent |-> s, gender |-> g, tag |-> t]

BlankLine ==
    [blank |-> TRUE, name |-> NoMatch, age |-> NoMatch, house_number |-> NoMatch,
     spouse_or_parent |-> NoMatch, gender |-> NoMatch, tag |-> NoMatch]

\* The lines a page is made of.  A label followed by two or more digits is
\* also found by the tag search (\d+ then [A-Za-z0-9]+), as on real pages.
FieldLines ==
    { Line(<<"r", " ", "k">>, NoMatch, NoMatch, NoMatch, NoMatch, NoMatch),
      Line(<<"r">>, NoMatch, NoMatch, NoMatch, NoMatch, NoMatch),
      Line(NoMatch, <<"4", "5">>, NoMatch, NoMatch, NoMatch, <<"4", "5">>),
      Line(NoMatch, NoMatch, <<"1", "2">>, NoMatch, NoMatch, <<"1", "2">>),
      Line(NoMatch, NoMatch, NoMatch, <<"s">>, NoMatch, NoMatch),
      Line(NoMatch, NoMatch, NoMatch, NoMatch, <<"M">>, NoMatch),
      Line(NoMatch, NoMatch, NoMatch, NoMatch, NoMatch, <<"1", "|", "A">>),
      Line(NoMatch, NoMatch, NoMatch, NoMatch, NoMatch, <<"2", " ", "B">>),
      Line(NoMatch, NoMatch, NoMatch, NoMatch, NoMatch, NoMatch) }

(* ------------------------------ records ------------------------------- *)

\* record = {}
EmptyRecord == [key \in {} |-> <<>>]

\* record[key] = value
Put(rec, key, value) ==
    [k \in DOMAIN rec \cup {key} |-> IF k = key THEN value ELSE rec[k]]

Required == {"name", "age", "house_number"}

\* Valid with house_number left out of the key list
ValidWithoutHouse(rec) ==
    /\ DOMAIN rec # {}
    /\ \A key \in {"name", "age"} : key \in DOMAIN rec

\* record and all(key in record for key in ['name', 'age', 'house_number'])
Valid(rec) ==
    /\ DOMAIN rec # {}
    /\ \A key \in Required : key \in DOMAIN rec

\* FlushData putting the record at the head of the list
FlushDataAtHead(data, rec) ==
    IF Valid(rec) THEN <<rec>> \o data ELSE data

\* the blank-line branch: what extracted_data becomes
FlushData(data, rec) ==
    IF Valid(rec) THEN Append(data, rec) ELSE data

\* FlushRecord without the reset
FlushRecordKept(rec) == rec

\* the blank-line branch: what record becomes
FlushRecord(rec) ==
    IF Valid(rec) THEN EmptyRecord ELSE rec

\* the number and the name of a "<number>-<name>" header value
HeaderNumber(text) == Strip(SplitSep(text, "-", <<>>)[1])

HeaderName(text) == Strip(Join(Tail(SplitSep(text, "-", <<>>)), "-"))

\* if section_match and 'section_number' not in record: ...
WithSection(rec, sm) ==
    IF sm # NoMatch /\ "section_number" \notin DOMAIN rec
    THEN Put(Put(rec, "section_number", HeaderNumber(Strip(sm))),
             "section_name", HeaderName(Strip(sm)))
    ELSE rec

\* if polling_match and 'polling_station_number' not in record: ...
WithPolling(rec, pm) ==
    IF pm # NoMatch /\ "polling_station_number" \notin DOMAIN rec
    THEN Put(Put(rec, "polling_station_number", HeaderNumber(Strip(pm))),
             "polling_station_name", HeaderName(Strip(pm)))
    ELSE rec

\* Surname taking name_parts[0]
SurnameFirstToken(full_name) ==
    LET name_parts == Split(full_name)
    IN  IF name_parts # <<>> THEN name_parts[1] ELSE <<>>

\* name_parts[-1] if name_parts else ''
Surname(full_name) ==
    LET name_parts == Split(full_name)
    IN  IF name_parts # <<>> THEN name_parts[Len(name_parts)] ELSE <<>>

\* tag_match.group(1).strip().replace('|', '').strip()
TagNumber(text) == Strip(Remove(Strip(text), "|"))

\* MatchLine with the tag fallback as a separate if after the labelled chain,
\* so that a line one of the labelled searches took is searched for a tag too
MatchLineFallThrough(rec, line) ==
    LET labelled ==
            IF line.name # NoMatch
            THEN Put(Put(rec, "name", Strip(line.name)),
                     "surname", Surname(Strip(line.name)))
            ELSE IF line.age # NoMatch
            THEN Put(rec, "age", ToInt(line.age))
            ELSE IF line.house_number # NoMatch
            THEN Put(rec, "house_number", Strip(line.house_number))
            ELSE IF line.spouse_or_parent # NoMatch
            THEN Put(rec, "spouse_or_parent_name", Strip(line.spouse_or_parent))
            ELSE IF line.gender # NoMatch
            THEN Put(rec, "gender", line.gender)
            ELSE rec
    IN  IF line.tag # NoMatch /\ "tag_number" \notin DOMAIN rec
        THEN Put(labelled, "tag_number", TagNumber(line.tag))
        ELSE labelled

\* the chain of single-line searches on a non-blank line: the first that
\* matches is applied and ends the line (continue)
MatchLine(rec, line) ==
    IF line.name # NoMatch
    THEN Put(Put(rec, "name", Strip(line.name)), "surname", Surname(Strip(line.name)))
    ELSE IF line.age # NoMatch
    THEN Put(rec, "age", ToInt(line.age))
    ELSE IF line.house_number # NoMatch
    THEN Put(rec, "house_number", Strip(line.house_number))
    ELSE IF line.spouse_or_parent # NoMatch
    THEN Put(rec, "spouse_or_parent_name", Strip(line.spouse_or_parent))
    ELSE IF line.gender # NoMatch
    THEN Put(rec, "gender", line.gender)
    ELSE IF line.tag # NoMatch /\ "tag_number" \notin DOMAIN rec
    THEN Put(rec, "tag_number", TagNumber(line.tag))
    ELSE rec

\* SegmentLine with the page-scoped searches placed after the single-line chain,
\* where a line that one of the labelled searches takes never gets to them
SegmentLinePageFieldsLast(rec, line, sm, pm) ==
    IF \/ line.name # NoMatch
       \/ line.age # NoMatch
       \/ line.house_number # NoMatch
       \/ line.spouse_or_parent # NoMatch
       \/ line.gender # NoMatch
    THEN MatchLine(rec, line)
    ELSE WithPolling(WithSection(MatchLine(rec, line), sm), pm)

\* the body of the line loop for a non-blank line
SegmentLine(rec, line, sm, pm) ==
    MatchLine(WithPolling(WithSection(rec, sm), pm), line)

\* EndOfPageData without the validity check
EndOfPageDataUnchecked(data, rec) == Append(data, rec)

\* EndOfPageData without the append
EndOfPageDataDropped(data, rec) == data

\* the end-of-page check: what extracted_data becomes
EndOfPageData(data, rec) ==
    IF Valid(rec) THEN Append(data, rec) ELSE data

\* the end-of-page check: whether the "No match found on page" warning is logged
NoMatchLogged(rec) == ~Valid(rec)

(* ------------------ ocr_utils.extract_text_from_pdf ------------------- *)

\* The function of ocr_utils.py.  app.py does not import it; to compare the
\* two it is run side by side with the one of app.py, on the same pages, lines
\* and failures.  Its frame is one record: images, record, extracted_data, the
\* pages of its "No match found" warnings, whether gc.collect() has run, the
\* exception it raised and what process_pdf returned; running says whether
\* the function is run at all.

\* extracted_data = []; images = []
UtilsNew ==
    [running |-> TRUE, images |-> <<>>, record |-> EmptyRecord,
     extracted_data |-> <<>>, warnings |-> {}, gc_collected |-> FALSE,
     exception |-> "none", result |-> [returned |-> FALSE, value |-> <<>>]]

\* the service alone: ocr_utils is not run
UtilsAbsent == [UtilsNew EXCEPT !.running = FALSE]

\* record and all(key in record for key in ['name', 'age', 'house_number'])
UtilsValid(rec) ==
    /\ DOMAIN rec # {}
    /\ \A key \in {"name", "age", "house_number"} : key \in DOMAIN rec

\* if section_match and 'section_number' not in record: ...
UtilsSection(rec, sm) ==
    IF sm # NoMatch /\ "section_number" \notin DOMAIN rec
    THEN LET section == Strip(sm)
         IN  Put(Put(rec, "section_number", Strip(SplitSep(section, "-", <<>>)[1])),
                 "section_name", Strip(Join(Tail(SplitSep(section, "-", <<>>)), "-")))
    ELSE rec

\* if polling_match and 'polling_station_number' not in record: ...
UtilsPolling(rec, pm) ==
    IF pm # NoMatch /\ "polling_station_number" \notin DOMAIN rec
    THEN LET polling == Strip(pm)
         IN  Put(Put(rec, "polling_station_number",
                     Strip(SplitSep(polling, "-", <<>>)[1])),
                 "polling_station_name",
                 Strip(Join(Tail(SplitSep(polling, "-", <<>>)), "-")))
    ELSE rec

\* the single-line searches of a non-blank line, each ending in continue
UtilsMatchLine(rec, line) ==
    IF line.name # NoMatch
    THEN LET full_name == Strip(line.name)
             name_parts == Split(full_name)
         IN  Put(Put(rec, "name", full_name), "surname",
                 IF name_parts # <<>> THEN name_parts[Len(name_parts)] ELSE <<>>)
    ELSE IF line.age # NoMatch
    THEN Put(rec, "age", ToInt(line.age))
    ELSE IF line.house_number # NoMatch
    THEN Put(rec, "house_number", Strip(line.house_number))
    ELSE IF line.spouse_or_parent # NoMatch
    THEN Put(rec, "spouse_or_parent_name", Strip(line.spouse_or_parent))
    ELSE IF line.gender # NoMatch
    THEN Put(rec, "gender", line.gender)
    ELSE IF line.tag # NoMatch /\ "tag_number" \notin DOMAIN rec
    THEN Put(rec, "tag_number", Strip(Remove(Strip(line.tag), "|")))
    ELSE rec

\* images = pdf2image.convert_from_path(pdf_path, dpi=400)
UtilsRasterized(u, n) == [u EXCEPT !.images = [i \in 1..n |-> "open"]]

\* except Exception as e: raise PDFProcessingError(...)
UtilsRaised(u) == [u EXCEPT !.exception = "PDFProcessingError"]

\* lines = ocr_text.split('\n'); record = {}
UtilsPageHead(u) == [u EXCEPT !.record = EmptyRecord]

\* UtilsBlank with record = {} moved out of the validity check
UtilsBlankAlwaysReset(u) ==
    IF UtilsValid(u.record)
    THEN [u EXCEPT !.extracted_data = Append(@, u.record), !.record = EmptyRecord]
    ELSE [u EXCEPT !.record = EmptyRecord]

\* the blank-line branch
UtilsBlank(u) ==
    IF UtilsValid(u.record)
    THEN [u EXCEPT !.extracted_data = Append(@, u.record), !.record = EmptyRecord]
    ELSE u

\* the body of the line loop for a non-blank line
UtilsLine(u, line, sm, pm) ==
    [u EXCEPT !.record = UtilsMatchLine(UtilsPolling(UtilsSection(@, sm), pm), line)]

\* the end-of-page check
UtilsPageEnd(u, page) ==
    IF UtilsValid(u.record)
    THEN [u EXCEPT !.extracted_data = Append(@, u.record)]
    ELSE [u EXCEPT !.warnings = @ \cup {page}]

\* def process_pdf(pdf_path): return extract_text_from_pdf(pdf_path)
process_pdf(u) ==
    IF u.exception = "none"
    THEN [returned |-> TRUE, value |-> u.extracted_data]
    ELSE [returned |-> FALSE, value |-> <<>>]

\* the finally clause, then the return or the propagation of the exception;
\* the frame ends as the one of app.py does
UtilsFinally(u) ==
    [running |-> u.running,
     images |-> [i \in DOMAIN u.images |-> "closed"],
     record |-> EmptyRecord,
     extracted_data |-> <<>>,
     warnings |-> {},
     gc_collected |-> TRUE,
     exception |-> u.exception,
     result |-> process_pdf(u)]

(* ------------------------------- state -------------------------------- *)

VARIABLES
    pc,              \* where the request is
    file,            \* the upload
    temp_file,       \* the temporary file on disk: "none", "exists", "deleted"
    temp_path,       \* extract_data's temp_path
    exception,       \* the exception in flight, "none" without one
    images,          \* the page images, each "open" or "closed"
    page_num,        \* the page the loop is at
    section_match,   \* the section search on the page's text
    polling_match,   \* the polling-station search on the page's text
    lines_read,      \* lines of the document the line loops have taken
    record,          \* the working record
    extracted_data,  \* the result list
    warnings,        \* pages logged with "No match found on page"
    gc_collected,    \* gc.collect() has run
    result,          \* what extract_text_from_pdf returned to extract_data
    response,        \* the response extract_data returns
    attempt,         \* delete attempts made
    origin,          \* history: the page each entry of extracted_data came from
    stale,           \* history: required keys of record set before the last blank line
    failed_page,     \* history: the page whose processing raised, -1 for none
    lost,            \* history: the records in extracted_data when it raised
    block,           \* history: the layout of the page's lines so far
    tally,           \* history: the page's lines so far, counted by label
    leftover,        \* history: the last page to end on a partial record
    utils,           \* ocr_utils.extract_text_from_pdf run on the same input
    unlink           \* history: the outcome of the last os.unlink

vars ==
    <<pc, file, temp_file, temp_path, exception, images, page_num, section_match,
      polling_match, lines_read, record, extracted_data, warnings, gc_collected,
      result, response, attempt, origin, stale, failed_page, lost, block, tally,
      leftover, utils, unlink>>

\* The layout of the lines a page has given so far: "block" for non-blank
\* lines only, "blank" for such a block and one blank line after it, "other"
\* for anything else; and the fields the lines of the block were labelled for.
\* kept says whether the histories of the page (block, tally, leftover) are
\* kept in this run: they are where a property reads them.
NewBlock == [kept |-> TRUE, shape |-> "block", labels |-> {}]

\* a run that keeps no history of the page
NotKept == [NewBlock EXCEPT !.kept = FALSE]

\* the field of the first single-line search that finds something on the line
LineLabel(line) ==
    IF line.name # NoMatch THEN "name"
    ELSE IF line.age # NoMatch THEN "age"
    ELSE IF line.house_number # NoMatch THEN "house_number"
    ELSE IF line.spouse_or_parent # NoMatch THEN "spouse_or_parent_name"
    ELSE IF line.gender # NoMatch THEN "gender"
    ELSE IF line.tag # NoMatch THEN "tag_number"
    ELSE "none"

\* no line of the page taken yet
NoLines ==
    [label \in {"name", "age", "house_number", "spouse_or_parent_name", "gender",
                "tag_number"} |-> 0]

\* the tally counts the lines of a required label up to MaxTally and stays
\* there; of an optional label it notes the first line only
TallyAfterLine(t, line) ==
    LET label == LineLabel(line)
    IN  IF label = "none" THEN t
        ELSE IF t[label] = (IF label \in Required THEN MaxTally ELSE 1) THEN t
        ELSE [t EXCEPT ![label] = @ + 1]

BlockAfterLine(b, line) ==
    IF ~b.kept THEN b
    ELSE IF b.shape = "block"
    THEN [b EXCEPT !.labels = (@ \cup {LineLabel(line)}) \ {"none"}]
    ELSE [b EXCEPT !.shape = "other", !.labels = {}]

BlockAfterBlank(b) ==
    IF ~b.kept THEN b
    ELSE IF b.shape = "block"
    THEN [b EXCEPT !.shape = "blank"]
    ELSE [b EXCEPT !.shape = "other", !.labels = {}]

\* temp_path = None
Null == "None"

\* extract_text_from_pdf has not returned a list
NoResult == [returned |-> FALSE, value |-> <<>>]

\* no response yet
NoResponse == [status_code |-> 0, content |-> <<>>]

\* max_attempts = 5
max_attempts == 5

\* an upload: whether file.filename ends with '.pdf', and what the handler
\* never reads: whether the content type is application/pdf and whether the
\* size is over 10MB
AllUploads ==
    [filename_pdf : BOOLEAN, content_type_pdf : BOOLEAN, over_10mb : BOOLEAN]

\* the PDF-typed uploads of at most 10MB, under any filename
Uploads == {f \in AllUploads : f.content_type_pdf /\ ~f.over_10mb}

\* the state when the request arrives, but for the upload
InitRequest ==
    /\ pc = "request"
    /\ temp_file = "none"
    /\ temp_path = Null
    /\ exception = "none"
    /\ images = <<>>
    /\ page_num = 0
    /\ section_match = NoMatch
    /\ polling_match = NoMatch
    /\ lines_read = 0
    /\ record = EmptyRecord
    /\ extracted_data = <<>>
    /\ warnings = {}
    /\ gc_collected = FALSE
    /\ result = NoResult
    /\ response = NoResponse
    /\ attempt = 0
    /\ origin = <<>>
    /\ stale = {}
    /\ failed_page = -1
    /\ lost = 0
    /\ tally = NoLines
    /\ leftover = -1
    /\ unlink = "none"

Init ==
    /\ file \in Uploads
    /\ utils = UtilsAbsent
    /\ block = NotKept
    /\ InitRequest

InitAllUploads ==
    /\ file \in AllUploads
    /\ utils = UtilsAbsent
    /\ block = NotKept
    /\ InitRequest

\* a request with ocr_utils.extract_text_from_pdf run alongside
InitSideBySide ==
    /\ file \in Uploads
    /\ utils = UtilsNew
    /\ block = NotKept
    /\ InitRequest

\* a request with the histories of the page kept
InitPageHistory ==
    /\ file \in Uploads
    /\ utils = UtilsAbsent
    /\ block = NewBlock
    /\ InitRequest

extractVars ==
    <<images, page_num, section_match, polling_match, lines_read, record,
      extracted_data, warnings, gc_collected, result, origin, stale, failed_page,
      lost, block, tally, leftover>>

(* --------------------------- extract_data ----------------------------- *)

\* the filename check
ReceiveUpload ==
    /\ pc = "request"
    /\ IF file.filename_pdf
       THEN /\ pc' = "save"
            /\ response' = response
       ELSE /\ pc' = "done"
            /\ response' = [status_code |-> 400, content |-> <<>>]
    /\ UNCHANGED <<file, temp_file, temp_path, exception, attempt, unlink,
                   extractVars,
                   utils>>

\* the with-block: the temporary file is created (delete=False), the upload is
\* read and written into it, and only then temp_path is set
SaveUpload ==
    /\ pc = "save"
    /\ \E outcome \in {"create_failed", "read_failed", "write_failed", "saved"} :
         /\ temp_file' = IF outcome = "create_failed" THEN "none" ELSE "exists"
         /\ temp_path' = IF outcome = "saved" THEN "tmp.pdf" ELSE Null
         /\ exception' = IF outcome = "saved" THEN "none" ELSE "Exception"
         /\ pc' = IF outcome = "saved" THEN "rasterize" ELSE "respond"
    /\ UNCHANGED <<file, response, attempt, unlink, extractVars, utils>>

(* ----------------------- extract_text_from_pdf ------------------------ *)

\* images = pdf2image.convert_from_path(pdf_path, dpi=400)
Rasterize ==
    /\ pc = "rasterize"
    /\ \E n \in 1..MaxPages :
         /\ images' = [i \in 1..n |-> "open"]
         /\ utils' = IF utils.running THEN UtilsRasterized(utils, n) ELSE utils
    /\ page_num' = 0
    /\ pc' = "page"
    /\ UNCHANGED <<file, temp_file, temp_path, exception, section_match,
                   polling_match, lines_read, record, extracted_data, warnings,
                   gc_collected, result, response, attempt, unlink, origin,
                   stale,
                   failed_page, lost, block, tally, leftover>>

\* convert_from_path raises: images is still [], the except clause raises
\* HTTPException(500)
RasterizeFails ==
    /\ pc = "rasterize"
    /\ exception' = "HTTPException"
    /\ utils' = IF utils.running THEN UtilsRaised(utils) ELSE utils
    /\ pc' = "finally"
    /\ UNCHANGED <<file, temp_file, temp_path, response, attempt, unlink,
                   extractVars>>

\* RecognizePage without record = {} at the head of the page
RecognizePageKeepRecord ==
    /\ pc = "page"
    /\ \E sm \in SectionMatches, pm \in PollingMatches :
         /\ section_match' = sm
         /\ polling_match' = pm
    /\ record' = record
    /\ stale' = {}
    /\ block' = IF block.kept THEN NewBlock ELSE block
    /\ tally' = NoLines
    /\ utils' = IF utils.running THEN UtilsPageHead(utils) ELSE utils
    /\ UNCHANGED leftover
    /\ pc' = "first_line"
    /\ UNCHANGED <<file, temp_file, temp_path, exception, images, page_num,
                   lines_read, extracted_data, warnings, gc_collected, result,
                   response, attempt, unlink, origin, failed_page, lost>>

\* the head of a page: colour conversion, preprocess_image and image_to_string
\* succeed; lines = ocr_text.split('\n'); record = {}
RecognizePage ==
    /\ pc = "page"
    /\ \E sm \in SectionMatches, pm \in PollingMatches :
         /\ section_match' = sm
         /\ polling_match' = pm
    /\ record' = EmptyRecord
    /\ stale' = {}
    /\ block' = IF block.kept THEN NewBlock ELSE block
    /\ tally' = NoLines
    /\ utils' = IF utils.running THEN UtilsPageHead(utils) ELSE utils
    /\ UNCHANGED leftover
    /\ pc' = "first_line"
    /\ UNCHANGED <<file, temp_file, temp_path, exception, images, page_num,
                   lines_read, extracted_data, warnings, gc_collected, result,
                   response, attempt, unlink, origin, failed_page, lost>>

\* normalization or recognition of the page raises: the except clause raises
\* HTTPException(500) and the loop is left
PageFails ==
    /\ pc = "page"
    /\ exception' = "HTTPException"
    /\ failed_page' = page_num
    /\ lost' = Len(extracted_data)
    /\ utils' = IF utils.running THEN UtilsRaised(utils) ELSE utils
    /\ pc' = "finally"
    /\ UNCHANGED <<file, temp_file, temp_path, images, page_num, section_match,
                   polling_match, lines_read, record, extracted_data, warnings,
                   gc_collected, result, response, attempt, unlink, origin,
                   stale, block,
                   tally, leftover>>

\* The line loop has a line to take: split('\n') gives every page at least one
\* line, and the document has room for it while each later page keeps one.
HasLine ==
    /\ pc \in {"first_line", "line"}
    /\ lines_read < MaxLines - (Len(images) - 1 - page_num)

\* an empty or whitespace-only line
FlushOnBlank ==
    /\ HasLine
    /\ pc' = "line"
    /\ lines_read' = lines_read + 1
    /\ extracted_data' = FlushData(extracted_data, record)
    /\ origin' = IF Len(extracted_data') > Len(extracted_data)
                 THEN Append(origin, page_num) ELSE origin
    /\ record' = FlushRecord(record)
    /\ stale' = DOMAIN record' \cap Required
    /\ block' = BlockAfterBlank(block)
    /\ utils' = IF utils.running THEN UtilsBlank(utils) ELSE utils
    /\ UNCHANGED <<file, temp_file, temp_path, exception, images, page_num,
                   section_match, polling_match, warnings, gc_collected, result,
                   response, attempt, unlink, failed_page, lost, tally,
                   leftover>>

\* a non-blank line
ReadLine ==
    /\ HasLine
    /\ pc' = "line"
    /\ lines_read' = lines_read + 1
    /\ \E line \in FieldLines :
         /\ record' = SegmentLine(record, line, section_match, polling_match)
         /\ stale' = IF line.name # NoMatch THEN stale \ {"name"}
                     ELSE IF line.age # NoMatch THEN stale \ {"age"}
                     ELSE IF line.house_number # NoMatch THEN stale \ {"house_number"}
                     ELSE stale
         /\ block' = BlockAfterLine(block, line)
         /\ tally' = IF block.kept THEN TallyAfterLine(tally, line) ELSE tally
         /\ utils' = IF utils.running
                     THEN UtilsLine(utils, line, section_match, polling_match)
                     ELSE utils
    /\ UNCHANGED <<file, temp_file, temp_path, exception, images, page_num,
                   section_match, polling_match, extracted_data, warnings,
                   gc_collected, result, response, attempt, unlink, origin,
                   failed_page, lost,
                   leftover>>

\* the lines of the page are exhausted: the end-of-page check, then the next
\* page or the end of the page loop
EndOfPage ==
    /\ pc = "line"
    /\ extracted_data' = EndOfPageData(extracted_data, record)
    /\ origin' = IF Len(extracted_data') > Len(extracted_data)
                 THEN Append(origin, page_num) ELSE origin
    /\ warnings' = IF NoMatchLogged(record) THEN warnings \cup {page_num} ELSE warnings
    /\ page_num' = page_num + 1
    /\ leftover' = IF block.kept /\ ~Valid(record) /\ record # EmptyRecord
                   THEN page_num ELSE leftover
    /\ utils' = IF utils.running THEN UtilsPageEnd(utils, page_num) ELSE utils
    /\ pc' = IF page_num + 1 < Len(images) THEN "page" ELSE "finally"
    /\ UNCHANGED <<file, temp_file, temp_path, exception, images, section_match,
                   polling_match, lines_read, record, gc_collected, result,
                   response, attempt, unlink, stale, failed_page, lost, block,
                   tally>>

\* CloseAll stopping one image short
CloseAllButLast(imgs) ==
    [i \in DOMAIN imgs |-> IF i < Len(imgs) THEN "closed" ELSE imgs[i]]

\* for image in images: image.close()
CloseAll(imgs) == [i \in DOMAIN imgs |-> "closed"]

\* Returned handing back the partial list after a failure
ReturnedPartial(exc, data) == [returned |-> TRUE, value |-> data]

\* what the caller gets: the list, or nothing when the exception propagates
Returned(exc, data) ==
    IF exc = "none" THEN [returned |-> TRUE, value |-> data] ELSE NoResult

\* The finally clause, then the return or the propagation of the exception.
\* The function's frame ends here: its locals other than the images and the
\* list it hands back are gone, and the history of the run with them.
Finally ==
    /\ pc = "finally"
    /\ images' = CloseAll(images)
    /\ gc_collected' = TRUE
    /\ result' = Returned(exception, extracted_data)
    /\ pc' = "respond"
    /\ page_num' = 0
    /\ section_match' = NoMatch
    /\ polling_match' = NoMatch
    /\ lines_read' = 0
    /\ record' = EmptyRecord
    /\ extracted_data' = <<>>
    /\ warnings' = {}
    /\ origin' = <<>>
    /\ stale' = {}
    /\ block' = IF block.kept THEN NewBlock ELSE block
    /\ tally' = NoLines
    /\ leftover' = -1
    /\ utils' = IF utils.running THEN UtilsFinally(utils) ELSE utils
    /\ UNCHANGED <<file, temp_file, temp_path, exception, response, attempt,
                   unlink,
                   failed_page, lost>>

(* ---------------------- extract_data, continued ----------------------- *)

\* ResponseFor without the empty-list check
ResponseForAnyList(exc, res) ==
    IF exc # "none" THEN [status_code |-> 500, content |-> <<>>]
    ELSE [status_code |-> 200, content |-> res.value]

\* the response: 500 from the except clause, 422 for an empty list, else the list
ResponseFor(exc, res) ==
    IF exc # "none" THEN [status_code |-> 500, content |-> <<>>]
    ELSE IF res.value = <<>> THEN [status_code |-> 422, content |-> <<>>]
    ELSE [status_code |-> 200, content |-> res.value]

Respond ==
    /\ pc = "respond"
    /\ response' = ResponseFor(exception, result)
    /\ pc' = "cleanup"
    /\ UNCHANGED <<file, temp_file, temp_path, exception, attempt, unlink,
                   extractVars,
                   utils>>

\* finally: if temp_path and os.path.exists(temp_path)
EnterCleanup ==
    /\ pc = "cleanup"
    /\ pc' = IF temp_path # Null /\ temp_file = "exists" THEN "delete" ELSE "done"
    /\ UNCHANGED <<file, temp_file, temp_path, exception, response, attempt,
                   unlink,
                   extractVars, utils>>

\* DeleteAttempt with except Exception: continue, retrying after any error
DeleteAttemptRetryAnyError ==
    /\ pc = "delete"
    /\ attempt < max_attempts
    /\ attempt' = attempt + 1
    /\ \E outcome \in {"deleted", "PermissionError", "OSError"} :
         /\ temp_file' = IF outcome = "deleted" THEN "deleted" ELSE temp_file
         /\ unlink' = outcome
         /\ pc' = IF outcome # "deleted" /\ attempt + 1 < max_attempts
                  THEN "delete" ELSE "done"
    /\ UNCHANGED <<file, temp_path, exception, response, extractVars, utils>>

\* one turn of the delete loop: sleep, os.unlink
DeleteAttempt ==
    /\ pc = "delete"
    /\ attempt < max_attempts
    /\ attempt' = attempt + 1
    /\ \E outcome \in {"deleted", "PermissionError", "OSError"} :
         /\ temp_file' = IF outcome = "deleted" THEN "deleted" ELSE temp_file
         /\ unlink' = outcome
         /\ pc' = IF outcome = "PermissionError" /\ attempt + 1 < max_attempts
                  THEN "delete" ELSE "done"
    /\ UNCHANGED <<file, temp_path, exception, response, extractVars, utils>>

Next ==
    \/ ReceiveUpload
    \/ SaveUpload
    \/ Rasterize
    \/ RasterizeFails
    \/ RecognizePage
    \/ PageFails
    \/ FlushOnBlank
    \/ ReadLine
    \/ EndOfPage
    \/ Finally
    \/ Respond
    \/ EnterCleanup
    \/ DeleteAttempt

Spec == Init /\ [][Next]_vars

\* a request with any upload
SpecAllUploads == InitAllUploads /\ [][Next]_vars

\* a request with the function of ocr_utils.py run alongside
SpecSideBySide == InitSideBySide /\ [][Next]_vars

\* a request with the histories of the page kept
SpecPageHistory == InitPageHistory /\ [][Next]_vars

(* ------------------------------ claims -------------------------------- *)

\* every entry of a list of records has name, age and house_number
AllRequired(data) ==
    \A i \in DOMAIN data : Required \subseteq DOMAIN data[i]

\* a flush point: a blank line or the end of a page
FlushPoint == FlushOnBlank \/ EndOfPage

\* at a flush point the working record is appended if and only if it has all
\* three required keys, and nothing else is appended
C1_FlushStep ==
    FlushPoint =>
        IF Required \subseteq DOMAIN record
        THEN extracted_data' = Append(extracted_data, record)
        ELSE extracted_data' = extracted_data

\* C1: a working record is appended to the result list at a flush point (blank
\* line or end of page) if and only if it has name, age and house_number at
\* that moment; so every record of the list, and of the list returned, has all
\* three keys.
C1_ValidIffEmitted ==
    /\ [](AllRequired(extracted_data) /\ AllRequired(result.value))
    /\ [][C1_FlushStep]_vars

\* C1 witness: a record was appended on this page and a later, incomplete
\* record went through a blank line without being appended
C1_Witness ==
    /\ pc = "line"
    /\ Len(extracted_data) >= 1
    /\ origin[Len(extracted_data)] = page_num
    /\ stale # {}

\* C2: a block (a run of non-blank lines between blank lines or page
\* boundaries) that lacks one of the name, age or house_number labels produces
\* no record: whenever a record is appended, none of its required keys was set
\* before the last blank line.
C2_NoRecordAcrossBlocks ==
    [][Len(extracted_data') > Len(extracted_data) => stale = {}]_vars

\* C3: right after the segmenter processes an empty or whitespace-only line the
\* working record is empty, whether it was valid before that line or not.
C3_EmptyAfterBlank ==
    [][FlushOnBlank => record' = EmptyRecord]_vars

\* the trailing record of the page is complete: name, age and house_number
\* were all set after the last blank line
TrailingComplete ==
    /\ Required \subseteq DOMAIN record
    /\ stale = {}

\* C4: when a page ends on a valid record (name, age and house_number set since
\* the last blank line, no blank line after it), the end-of-page step appends
\* that record to the result, once.
C4_TrailingRecordEmitted ==
    [][EndOfPage /\ TrailingComplete =>
          /\ extracted_data' = Append(extracted_data, record)
          /\ origin' = Append(origin, page_num)]_vars

\* C4 witness: a page has just ended on a complete trailing record, which is
\* the last entry of the result
C4_Witness ==
    /\ pc \in {"page", "finally"}
    /\ exception = "none"
    /\ page_num >= 1
    /\ TrailingComplete
    /\ Len(extracted_data) >= 1
    /\ extracted_data[Len(extracted_data)] = record
    /\ origin[Len(origin)] = page_num - 1

\* the pages whose line loop is over
CompletedPages ==
    IF pc \in {"first_line", "line", "page", "finally"}
    THEN 0 .. (page_num - 1) ELSE {}

\* the number of entries of extracted_data that came from page p
RecordsFrom(p) == Cardinality({i \in DOMAIN origin : origin[i] = p})

\* C5: a page gets the "No match found on page" warning if and only if it
\* contributed no record to the result.
C5_NoMatchIffNoRecord ==
    \A p \in CompletedPages : (p \in warnings) <=> (RecordsFrom(p) = 0)

\* the page whose searches section_match and polling_match hold
SearchedPage ==
    IF pc \in {"first_line", "line"} THEN page_num ELSE page_num - 1

\* a record carries the page-scoped fields of a search that matched
CarriesSection(rec) ==
    section_match # NoMatch =>
        /\ {"section_number", "section_name"} \subseteq DOMAIN rec
        /\ rec.section_number = HeaderNumber(Strip(section_match))
        /\ rec.section_name = HeaderName(Strip(section_match))

CarriesPolling(rec) ==
    polling_match # NoMatch =>
        /\ {"polling_station_number", "polling_station_name"} \subseteq DOMAIN rec
        /\ rec.polling_station_number = HeaderNumber(Strip(polling_match))
        /\ rec.polling_station_name = HeaderName(Strip(polling_match))

\* C6: on a page whose text matches a section or polling-station header, every
\* record emitted from the page carries the fields of that header, with the
\* values of the page's (first) match, so they are the same in all of them.
C6_PageFieldsOnEveryRecord ==
    pc \in {"first_line", "line", "page", "finally"} =>
        \A i \in DOMAIN extracted_data :
            origin[i] = SearchedPage =>
                /\ CarriesSection(extracted_data[i])
                /\ CarriesPolling(extracted_data[i])

\* C6 witness: two records emitted from the same page, whose text matches both
\* headers
C6_Witness ==
    /\ pc \in {"line", "page", "finally"}
    /\ section_match # NoMatch
    /\ polling_match # NoMatch
    /\ Len(extracted_data) >= 2
    /\ origin[Len(origin)] = SearchedPage
    /\ origin[Len(origin) - 1] = SearchedPage
    /\ extracted_data[Len(extracted_data)].section_name = <<"W", "a">>
    /\ extracted_data[Len(extracted_data)].polling_station_number = <<"3">>

\* the records the segmenter has built: the working record and the emitted ones
BuiltRecords ==
    {record} \cup {extracted_data[i] : i \in DOMAIN extracted_data}
             \cup {result.value[i] : i \in DOMAIN result.value}

\* text has no whitespace-separated token
NoToken(text) == \A i \in DOMAIN text : text[i] = Space

\* token is the last whitespace-separated token of text, which does not end in
\* whitespace: a suffix without whitespace that starts the text or follows a
\* space
IsLastToken(token, text) ==
    /\ token # <<>>
    /\ \A i \in DOMAIN token : token[i] # Space
    /\ Len(token) <= Len(text)
    /\ SubSeq(text, Len(text) - Len(token) + 1, Len(text)) = token
    /\ Len(token) < Len(text) => text[Len(text) - Len(token)] = Space

\* the number of whitespace-separated tokens of text, which has no whitespace
\* at either end: one more than its runs of spaces
TokenCount(text) ==
    IF text = <<>> THEN 0
    ELSE 1 + Cardinality({i \in 2 .. Len(text) :
                              text[i] = Space /\ text[i - 1] # Space})

\* C7 as stated: surname is the last whitespace-separated token of name, or the
\* empty string if name is a single token or empty.
C7_SurnameEmptyForSingleToken ==
    \A rec \in BuiltRecords :
        "name" \in DOMAIN rec =>
            /\ "surname" \in DOMAIN rec
            /\ IF TokenCount(rec.name) <= 1
               THEN rec.surname = <<>>
               ELSE IsLastToken(rec.surname, rec.name)

\* C7 amended: surname is the last whitespace-separated token of name, for a
\* single-token name the name itself, and the empty string only if name has no
\* token.
C7_SurnameIsLastToken ==
    \A rec \in BuiltRecords :
        "name" \in DOMAIN rec =>
            /\ "surname" \in DOMAIN rec
            /\ IF NoToken(rec.name)
               THEN rec.surname = <<>>
               ELSE IsLastToken(rec.surname, rec.name)

\* C7 witness: the result holds a record with a two-token name and one with a
\* single-token name, whose surname is the name itself
C7_Witness ==
    /\ \E i \in DOMAIN extracted_data :
          /\ extracted_data[i].name = <<"r", " ", "k">>
          /\ extracted_data[i].surname = <<"k">>
    /\ \E i \in DOMAIN extracted_data :
          /\ extracted_data[i].name = <<"r">>
          /\ extracted_data[i].surname = <<"r">>

\* C8: if rasterization, normalization or recognition fails on a page, the
\* function raises one processing failure and returns no list, so the records
\* emitted before are not delivered; the page loop is left for good, at the
\* page that failed.
C8_FailureAbortsDocument ==
    exception = "HTTPException" =>
        /\ result = NoResult
        /\ response.content = <<>>
        /\ response.status_code \in {0, 500}
        /\ pc \notin {"rasterize", "page", "first_line", "line"}
        /\ pc = "finally" /\ failed_page >= 0 => page_num = failed_page

\* C8 witness: a page after the first failed with records already emitted and
\* pages left, and the function has ended without returning a list
C8_Witness ==
    /\ pc = "respond"
    /\ exception = "HTTPException"
    /\ failed_page >= 1
    /\ failed_page + 1 < Len(images)
    /\ lost >= 1
    /\ result = NoResult

\* the handler has chosen its response to an accepted upload
Responded ==
    /\ file.filename_pdf
    /\ pc \in {"cleanup", "delete", "done"}

\* C9: for an accepted upload the handler returns exactly one of: the non-empty
\* record list when records were extracted, 422 when processing ended without
\* error and with no record, 500 when a processing step raised.
C9_ThreeOutcomes ==
    Responded =>
        /\ response.status_code \in {200, 422, 500}
        /\ response.status_code = 500 <=> exception # "none"
        /\ response.status_code = 422 <=>
              (exception = "none" /\ result.returned /\ result.value = <<>>)
        /\ response.status_code = 200 <=>
              (exception = "none" /\ result.returned /\ result.value # <<>>)
        /\ response.status_code = 200 => response.content = result.value
        /\ response.status_code # 200 => response.content = <<>>

\* C9 witness: every page of a document was processed without error, no record
\* came out, and the handler answered 422
C9_Witness ==
    /\ pc = "done"
    /\ Len(images) >= 2
    /\ exception = "none"
    /\ result.returned
    /\ result.value = <<>>
    /\ response.status_code = 422

\* extract_text_from_pdf was called and control is back in extract_data
BackInHandler ==
    /\ temp_path # Null
    /\ pc \in {"respond", "cleanup", "delete", "done"}

\* C10: on every exit of extract_text_from_pdf (return, failure at rasterization
\* or at a page) every page image is closed and gc.collect() has run before
\* control is back in the caller.
C10_ReleasedOnEveryExit ==
    BackInHandler =>
        /\ \A i \in DOMAIN images : images[i] = "closed"
        /\ gc_collected

\* C10 witness: the function has just ended on a failure at a page after the
\* first, with every image closed
C10_Witness ==
    /\ pc = "respond"
    /\ temp_path # Null
    /\ exception = "HTTPException"
    /\ failed_page >= 1
    /\ Len(images) >= 2
    /\ \A i \in DOMAIN images : images[i] = "closed"
    /\ gc_collected

\* a sequence of page numbers never goes down
NonDecreasing(pages) ==
    \A i, j \in DOMAIN pages : i < j => pages[i] <= pages[j]

\* a step of the extraction leaves the list as it is or appends the working
\* record to it, and the return hands the list back as it is
C11_Step ==
    IF pc = "finally"
    THEN result'.returned => result'.value = extracted_data
    ELSE \/ /\ extracted_data' = extracted_data
            /\ origin' = origin
         \/ /\ extracted_data' = Append(extracted_data, record)
            /\ origin' = Append(origin, page_num)

\* C11: the result list keeps the order of emission: records of a lower page
\* come first, within a page the record flushed earlier comes first, and the
\* list is only ever appended to, never reordered, shortened or duplicated.
C11_OrderPreserved ==
    /\ [](NonDecreasing(origin) /\ Len(origin) = Len(extracted_data))
    /\ [][C11_Step]_vars

\* C11 witness: the page loop has ended with two different records, the first
\* from the first page and the second from a later page
C11_Witness ==
    /\ pc = "finally"
    /\ exception = "none"
    /\ Len(extracted_data) = 2
    /\ origin[1] = 0
    /\ origin[2] >= 1
    /\ extracted_data[1] # extracted_data[2]

\* an upload the boundary is to reject: over 10MB, or not of type
\* application/pdf
BadUpload == file.over_10mb \/ ~file.content_type_pdf

\* C12: every upload over 10MB or whose MIME type is not application/pdf is
\* answered 400 without the extraction being started: no temporary file, no
\* step past the request.
C12_BadUploadRejected ==
    BadUpload =>
        /\ pc \in {"request", "done"}
        /\ temp_file = "none"
        /\ pc = "done" => response.status_code = 400

\* the keys the single-line searches set, but for surname
LabelKeys ==
    {"name", "age", "house_number", "spouse_or_parent_name", "gender", "tag_number"}

\* a record holds, under each label key it has, a value the lines of a page
\* can give it
PopulatedFromLines(rec) ==
    /\ "name" \in DOMAIN rec => rec.name \in {<<"r", " ", "k">>, <<"r">>}
    /\ "age" \in DOMAIN rec => rec.age = 45
    /\ "house_number" \in DOMAIN rec => rec.house_number = <<"1", "2">>
    /\ "spouse_or_parent_name" \in DOMAIN rec => rec.spouse_or_parent_name = <<"s">>
    /\ "gender" \in DOMAIN rec => rec.gender = <<"M">>
    /\ "tag_number" \in DOMAIN rec =>
          rec.tag_number \in {<<"1", "A">>, <<"2", " ", "B">>}

\* the only page of a document has ended, and it was one block of non-blank
\* lines with a name, an age and a house-number line, with or without one
\* blank line after it
SingleBlockPageDone ==
    /\ block.kept
    /\ pc = "finally"
    /\ exception = "none"
    /\ Len(images) = 1
    /\ block.shape \in {"block", "blank"}
    /\ Required \subseteq block.labels

\* C13: a single page that is one block of non-blank lines with a name, an age
\* and a house-number line (any order, any optional lines, with or without a
\* trailing blank line) gives exactly one record, with name, age and
\* house_number from those lines and exactly the optional fields its lines
\* were labelled for.
C13_SingleBlockOneRecord ==
    SingleBlockPageDone =>
        /\ Len(extracted_data) = 1
        /\ DOMAIN extracted_data[1] \cap LabelKeys = block.labels
        /\ PopulatedFromLines(extracted_data[1])

\* C13 witness: a block with all six kinds of line and a trailing blank line
\* has given its one record
C13_Witness ==
    /\ SingleBlockPageDone
    /\ block.shape = "blank"
    /\ block.labels = LabelKeys
    /\ Len(extracted_data) = 1

\* the field groups a single-line search writes, by the label of the search
FieldGroup(label) ==
    IF label = "name" THEN {"name", "surname"}
    ELSE IF label = "none" THEN {}
    ELSE {label}

\* the keys of the single-line searches on which two records differ
ChangedKeys(old, new) ==
    {key \in LabelKeys \cup {"surname"} :
        \/ (key \in DOMAIN old) # (key \in DOMAIN new)
        \/ key \in DOMAIN old /\ key \in DOMAIN new /\ old[key] # new[key]}

\* one of the five labelled searches finds something on the line
LabelledMatch(line) ==
    \/ line.name # NoMatch
    \/ line.age # NoMatch
    \/ line.house_number # NoMatch
    \/ line.spouse_or_parent # NoMatch
    \/ line.gender # NoMatch

\* what a non-blank line may do to the working record
LineEffect(old, new, line) ==
    LET changed == ChangedKeys(old, new)
        label == LineLabel(line)
    IN  /\ DOMAIN old \subseteq DOMAIN new
        /\ changed \subseteq FieldGroup(label)
        /\ label \notin {"none", "tag_number"} => FieldGroup(label) \subseteq DOMAIN new
        /\ "tag_number" \in changed => ~LabelledMatch(line)
        /\ ~LabelledMatch(line) /\ line.tag # NoMatch => "tag_number" \in DOMAIN new
        /\ section_match # NoMatch => "section_number" \in DOMAIN new
        /\ polling_match # NoMatch => "polling_station_number" \in DOMAIN new

\* a step of the line loop changes the fields of one single-line search at
\* most, or is the reset of a flush
OneGroupStep ==
    HasLine /\ lines_read' = lines_read + 1 =>
        \/ record' = EmptyRecord
        \/ \E label \in LabelKeys \cup {"none"} :
               ChangedKeys(record, record') \subseteq FieldGroup(label)

\* C14: a non-blank line is taken by the first single-line search that matches
\* it, in the order name, age, house_number, spouse/parent, gender, tag: it
\* changes the fields of that search only, tag_number only when none of the
\* five labelled searches matched it, and the page-scoped fields are in the
\* record after every non-blank line of a page whose text has them.  Stated of
\* every line the loop can take in every state it can take one, and of every
\* step of the loop.
C14_FirstMatchOnly ==
    /\ [](HasLine =>
            \A line \in FieldLines :
                \A new \in {SegmentLine(record, line, section_match, polling_match)} :
                    LineEffect(record, new, line))
    /\ [][OneGroupStep]_vars

\* C14 witness: the first line of a document, an age line, which the tag
\* search matches too, has set age and no tag_number, on a page with a
\* section header
C14_Witness ==
    /\ pc = "line"
    /\ page_num = 0
    /\ lines_read = 1
    /\ "age" \in DOMAIN record
    /\ "tag_number" \notin DOMAIN record
    /\ "section_number" \in DOMAIN record

\* C15: within one working record tag_number is first-match-wins: a line
\* leaves a tag_number that is set as it is, and after the flush of a blank
\* line the next record starts with no tag_number.
C15_TagFirstMatchUntilFlush ==
    [][/\ ReadLine /\ "tag_number" \in DOMAIN record =>
              /\ "tag_number" \in DOMAIN record'
              /\ record'.tag_number = record.tag_number
       /\ FlushOnBlank => "tag_number" \notin DOMAIN record']_vars

\* every field of a record comes from the page the loop is at: a line of the
\* page had the label of the field, the text of the page its header
FromThisPage(rec) ==
    /\ \A key \in DOMAIN rec \cap LabelKeys : tally[key] > 0
    /\ "surname" \in DOMAIN rec => tally["name"] > 0
    /\ DOMAIN rec \cap {"section_number", "section_name"} # {} =>
          section_match # NoMatch
    /\ DOMAIN rec \cap {"polling_station_number", "polling_station_name"} # {} =>
          polling_match # NoMatch

\* the page the tally is of, -1 without one
TalliedPage ==
    IF ~block.kept THEN -1
    ELSE IF pc \in {"first_line", "line"} THEN page_num
    ELSE IF pc \in {"page", "finally"} /\ exception = "none" /\ page_num >= 1
    THEN page_num - 1
    ELSE -1

\* C16: the segmenter starts every page afresh: the working record is empty
\* when the first line of a page is processed, and no field of the working
\* record or of a record emitted from a page comes from an earlier page,
\* whatever partial record that page left.
C16_FreshPerPage ==
    /\ pc = "first_line" => record = EmptyRecord
    /\ block.kept /\ pc \in {"first_line", "line"} => FromThisPage(record)
    /\ TalliedPage # -1 =>
          \A i \in DOMAIN origin :
              origin[i] = TalliedPage => FromThisPage(extracted_data[i])

\* C16 witness: the first page ended on a partial record that was not emitted,
\* and the second page has emitted a record
C16_Witness ==
    /\ pc = "line"
    /\ page_num = 1
    /\ leftover = 0
    /\ origin = <<1>>

\* C19: a page never gives more records than it has lines with the name label,
\* nor with the age label, nor with the house-number label (checked for the
\* labels whose count is exact, under MaxTally); in particular a page that is
\* one block and a blank line, ended or not, has given one record at most.
C19_NoMoreRecordsThanLines ==
    TalliedPage # -1 =>
        /\ \A key \in Required :
               tally[key] < MaxTally => RecordsFrom(TalliedPage) <= tally[key]
        /\ block.shape = "blank" => RecordsFrom(TalliedPage) <= 1

\* C19 witness: a page of one name, one age and one house-number line and a
\* blank line has ended with one record
C19_Witness ==
    /\ pc \in {"page", "finally"}
    /\ TalliedPage # -1
    /\ block.shape = "blank"
    /\ \A key \in Required : tally[key] = 1
    /\ RecordsFrom(TalliedPage) = 1

\* C17: the extraction function of app.py and the one of ocr_utils.py (also
\* behind process_pdf), run on the same pages, lines and failures, have the
\* same working record, the same ordered list, the same warnings, release the
\* images and collect garbage alike, return the same list and fail on the same
\* inputs, with HTTPException on one side and PDFProcessingError on the other.
C17_SameDesign ==
    /\ utils.running
    /\ utils.record = record
    /\ utils.extracted_data = extracted_data
    /\ utils.warnings = warnings
    /\ utils.images = images
    /\ utils.gc_collected = gc_collected
    /\ utils.result = result
    /\ utils.exception \in {"none", "PDFProcessingError"}
    /\ (utils.exception = "PDFProcessingError") <=> (exception = "HTTPException")

\* C17 witness: both functions have failed on a later page after emitting a
\* record, closed every image and returned nothing
C17_Witness ==
    /\ pc = "respond"
    /\ utils.exception = "PDFProcessingError"
    /\ exception = "HTTPException"
    /\ lost >= 1
    /\ Len(utils.images) >= 2
    /\ \A i \in DOMAIN utils.images : utils.images[i] = "closed"
    /\ ~utils.result.returned

\* the upload was saved and handed to the pipeline
UploadProcessed == temp_path # Null

\* C18: after an upload was processed the temporary file is deleted with a
\* bounded retry: at most max_attempts attempts, each turn of the loop using
\* one up, so the loop ends; none after a successful delete, the next one
\* after a PermissionError while attempts are left, none after any other
\* error; the loop runs whatever the response (200, 422 or 500), and the
\* response is still the one chosen before it.
C18_BoundedDeleteRetry ==
    /\ attempt <= max_attempts
    /\ (attempt = 0) <=> (unlink = "none")
    /\ pc = "delete" =>
          /\ attempt < max_attempts
          /\ temp_file = "exists"
          /\ unlink \in {"none", "PermissionError"}
    /\ unlink = "deleted" => pc = "done" /\ temp_file = "deleted"
    /\ unlink = "OSError" => pc = "done" /\ temp_file = "exists"
    /\ pc = "done" /\ unlink = "PermissionError" => attempt = max_attempts
    /\ pc = "done" /\ UploadProcessed =>
          /\ attempt >= 1
          /\ response.status_code \in {200, 422, 500}
    /\ pc \in {"cleanup", "delete", "done"} /\ file.filename_pdf =>
          response = ResponseFor(exception, result)

\* C18 witness: the handler has finished a request answered with 422 after
\* five delete attempts that all failed on a PermissionError
C18_Witness ==
    /\ pc = "done"
    /\ UploadProcessed
    /\ response.status_code = 422
    /\ attempt = max_attempts
    /\ unlink = "PermissionError"
    /\ temp_file = "exists"

\* C20: every temporary file the handler created has had a delete attempt
\* when the handler finishes.
C20_CreatedFileGetsDeleteAttempt ==
    pc = "done" /\ temp_file # "none" => attempt >= 1

=============================================================================
